---- MODULE Spec2Model ----
(***************************************************************************)
(* A model of semantiva's component loader (component_loader.py) and of    *)
(* the context observer (context_observer.py).                             *)
(*                                                                         *)
(* Strings that the code inspects character by character (class names and  *)
(* operation descriptors) are sequences of one-character strings.  Python   *)
(* exceptions are records [cls, text, arg]; an except clause catches by     *)
(* class, through the class hierarchy of Mro.                               *)
(***************************************************************************)
EXTENDS Integers, Sequences, FiniteSets, TLC

VARIABLES
    registered_modules,   \* ComponentLoader._registered_modules : set of str
    registered_paths,     \* ComponentLoader._registered_paths   : set of Path
    context,              \* the context object handed to update_context
    last                  \* the last call: its arguments and what the caller saw

vars == <<registered_modules, registered_paths, context, last>>

-----------------------------------------------------------------------------
(* Bounds of the model.                                                    *)

\* Longest tail that follows a descriptor prefix.
MaxTail == 3
\* Largest number of slices of a collection context.
MaxSlices == 2
\* Largest number of outer layers of a layered context.
MaxOuter == 1

-----------------------------------------------------------------------------
(* Python values.                                                          *)

\* A resolved component: a class found in a source (id names it), or a type
\* built by a factory from the captured keys.
Class(id) == [factory |-> "", id |-> id, args |-> <<>>]

None == Class("None")

NoExc == [cls |-> "", text |-> "", arg |-> <<>>]

\* The classes an exception of class c is an instance of.
Mro(c) ==
    CASE c = "ModuleNotFoundError" ->
             {"ModuleNotFoundError", "ImportError", "Exception", "BaseException"}
      [] c = "ValueError" -> {"ValueError", "Exception", "BaseException"}
      [] c = "TypeError" -> {"TypeError", "Exception", "BaseException"}
      [] c = "RuntimeError" -> {"RuntimeError", "Exception", "BaseException"}
      [] c = "IndexError" -> {"IndexError", "Exception", "BaseException"}
      [] c = "SystemExit" -> {"SystemExit", "BaseException"}
      [] OTHER -> {c}

IsInstance(exc, c) == c \in Mro(exc.cls)

Returned(v) == [kind |-> "return", value |-> v, exc |-> NoExc]
Raised(e) == [kind |-> "raise", value |-> None, exc |-> e]

\* getattr(module, class_name, None) on a module's attribute table.
GetAttr(attrs, class_name) ==
    IF class_name \in DOMAIN attrs THEN Class(attrs[class_name]) ELSE None

-----------------------------------------------------------------------------
(* The interpreter's environment: what import_module and the file system   *)
(* answer.  It is fixed; the registry and the names asked for vary.        *)

DefaultModules ==
    { "semantiva.specializations.image.image_algorithms",
      "semantiva.specializations.image.image_probes",
      "semantiva.context_operations.context_operations" }

EmptyAttrs == [n \in {} |-> None]

\* import_module(module_name): the module's attributes, or the exception;
\* missing is ModuleNotFoundError.name, the module that could not be found.
\*   mod_a        : importable; defines A and B
\*   mod_absent   : no such module                    (ModuleNotFoundError)
\*   mod_dep      : exists, imports a missing module  (ModuleNotFoundError)
\*   .rel         : relative name without a package   (TypeError)
\*   ""           : the empty module name             (ValueError)
\*   any other    : importable; defines none of the names asked for
ImportModule(module_name) ==
    CASE module_name = "mod_a" ->
             [ok |-> TRUE, exc |-> NoExc, missing |-> "",
              attrs |-> (<<"A">> :> "mod_a.A") @@ (<<"B">> :> "mod_a.B")]
      [] module_name = "mod_absent" ->
             [ok |-> FALSE, attrs |-> EmptyAttrs, missing |-> "mod_absent",
              exc |-> [cls |-> "ModuleNotFoundError",
                       text |-> "No module named 'mod_absent'", arg |-> <<>>]]
      [] module_name = "mod_dep" ->
             [ok |-> FALSE, attrs |-> EmptyAttrs, missing |-> "missing_dependency",
              exc |-> [cls |-> "ModuleNotFoundError",
                       text |-> "No module named 'missing_dependency'", arg |-> <<>>]]
      [] module_name = ".rel" ->
             [ok |-> FALSE, attrs |-> EmptyAttrs, missing |-> "",
              exc |-> [cls |-> "TypeError",
                       text |-> "the 'package' argument is required", arg |-> <<>>]]
      [] module_name = "" ->
             [ok |-> FALSE, attrs |-> EmptyAttrs, missing |-> "",
              exc |-> [cls |-> "ValueError",
                       text |-> "Empty module name", arg |-> <<>>]]
      [] OTHER -> [ok |-> TRUE, exc |-> NoExc, missing |-> "", attrs |-> EmptyAttrs]

\* A path string is the sequence of its "/"-separated components.
\* Path(s): pathlib drops "." and empty components.
KeepComponent(c) == c \notin {".", ""}

Path(s) == SelectSeq(s, KeepComponent)

\* The file system, by Path:
\*   plug_a.py : loads; defines A and C        bad.py    : raises RuntimeError
\*   ops.py    : loads; defines "delete:a"     exit.py   : raises SystemExit
\*   notes.txt : a file without loader
\*   anything else is not a file
IsFile(file_path) ==
    file_path \in { <<"plug_a.py">>, <<"ops.py">>, <<"bad.py">>, <<"exit.py">>,
                    <<"notes.txt">> }

\* spec_from_file_location(...) gives a spec with a loader.
HasLoader(file_path) == file_path # <<"notes.txt">>

\* module_spec.loader.exec_module(module): the attributes, or the exception.
ExecModule(file_path) ==
    CASE file_path = <<"plug_a.py">> ->
             [ok |-> TRUE, exc |-> NoExc,
              attrs |-> (<<"A">> :> "plug_a.A") @@ (<<"C">> :> "plug_a.C")]
      [] file_path = <<"ops.py">> ->
             [ok |-> TRUE, exc |-> NoExc,
              attrs |-> (<<"d","e","l","e","t","e",":","a">> :> "ops.delete_a")]
      [] file_path = <<"bad.py">> ->
             [ok |-> FALSE, attrs |-> EmptyAttrs,
              exc |-> [cls |-> "RuntimeError", text |-> "boom", arg |-> <<>>]]
      [] file_path = <<"exit.py">> ->
             [ok |-> FALSE, attrs |-> EmptyAttrs,
              exc |-> [cls |-> "SystemExit", text |-> "1", arg |-> <<>>]]
      [] OTHER -> [ok |-> TRUE, exc |-> NoExc, attrs |-> EmptyAttrs]

-----------------------------------------------------------------------------
(* ComponentLoader                                                         *)

\* A str | List[str] argument.
StrArg(s) == [isstr |-> TRUE, s |-> s, list |-> <<>>]
ListArg(l, nostr) == [isstr |-> FALSE, s |-> nostr, list |-> l]

\* if isinstance(x, str): x = [x]
AsList(arg) == IF arg.isstr THEN <<arg.s>> ELSE arg.list

\* A registration that assigns the set instead of adding to it.
AddModulesAssign(modules_set, modules) ==
    LET l == AsList(modules)
    IN  { l[i] : i \in 1..Len(l) }

\* register_modules: for module in modules: cls._registered_modules.add(module)
AddModules(modules_set, modules) ==
    LET l == AsList(modules)
    IN  modules_set \cup { l[i] : i \in 1..Len(l) }

\* register_paths: for path in paths: cls._registered_paths.add(Path(path))
AddPaths(paths_set, paths) ==
    LET l == AsList(paths)
    IN  paths_set \cup { Path(l[i]) : i \in 1..Len(l) }

\* A module lookup without the try / except around the import.
GetClassFromModuleNoExcept(module_name, class_name) ==
    LET m == ImportModule(module_name)
    IN  IF m.ok THEN Returned(GetAttr(m.attrs, class_name)) ELSE Raised(m.exc)

\* _get_class_from_module: None when the import raises ModuleNotFoundError,
\* any other exception of the import propagates.
GetClassFromModule(module_name, class_name) ==
    LET m == ImportModule(module_name)
    IN  IF m.ok
        THEN Returned(GetAttr(m.attrs, class_name))
        ELSE IF IsInstance(m.exc, "ModuleNotFoundError")
             THEN Returned(None)
             ELSE Raised(m.exc)

\* _get_class_from_file reaches exec_module for this path.
Executes(file_path) == IsFile(file_path) /\ HasLoader(file_path)

\* A file lookup without the try / except around exec_module.
GetClassFromFileNoExcept(file_path, class_name) ==
    IF ~IsFile(file_path) \/ ~HasLoader(file_path)
    THEN Returned(None)
    ELSE LET m == ExecModule(file_path)
         IN  IF m.ok THEN Returned(GetAttr(m.attrs, class_name)) ELSE Raised(m.exc)

\* _get_class_from_file: None for a path that is no file or has no loader;
\* an Exception of exec_module is printed and gives None.
GetClassFromFile(file_path, class_name) ==
    IF ~IsFile(file_path)
    THEN Returned(None)
    ELSE IF ~HasLoader(file_path)
         THEN Returned(None)
         ELSE LET m == ExecModule(file_path)
              IN  IF m.ok
                  THEN Returned(GetAttr(m.attrs, class_name))
                  ELSE IF IsInstance(m.exc, "Exception")
                       THEN Returned(None)
                       ELSE Raised(m.exc)

\* for x in S: r = lookup(x); if r is not None: return r
\* lookup is the function from the elements of the set to what their lookup
\* gives.  A Python set is iterated in an order the caller does not control.
\* The loop visits some elements whose lookup gives None (before) and then
\* either an element whose lookup returns a class or raises (it ends the loop
\* there), or it runs out of elements.  Each run is [visited, out]; out is
\* Returned(None) when the loop ran to its end.
FirstMatch(lookup) ==
    LET S == DOMAIN lookup
        pass == { x \in S : lookup[x] = Returned(None) }
    IN  IF pass = S
        THEN { [visited |-> S, out |-> Returned(None)] }
        ELSE { [visited |-> before \cup {x}, out |-> lookup[x]] :
                 x \in S \ pass, before \in SUBSET pass }

\* raise ValueError(f"Class '{class_name}' not found in any of the ...")
NotFound(class_name) ==
    [cls |-> "ValueError",
     text |-> "Class '{class_name}' not found in any of the registered modules and paths.",
     arg |-> class_name]

\* A get_class whose loop over the paths comes first.
GetClassPathsFirst(modules_set, paths_set, class_name) ==
    LET Executed(visited) == { p \in visited : Executes(p) }
        mruns == FirstMatch([m \in modules_set |-> GetClassFromModule(m, class_name)])
        pruns == FirstMatch([p \in paths_set |-> GetClassFromFile(p, class_name)])
    IN  { [out |-> q.out, imported |-> {}, executed |-> Executed(q.visited)] :
            q \in { x \in pruns : x.out # Returned(None) } }
        \cup
        { [out |-> IF r.out = Returned(None) THEN Raised(NotFound(class_name))
                   ELSE r.out,
           imported |-> r.visited, executed |-> Executed(q.visited)] :
            q \in { x \in pruns : x.out = Returned(None) }, r \in mruns }

\* get_class: the runs of the two loops, modules first and then paths.  Each
\* is [out, imported, executed]: what the caller sees, the modules handed to
\* import_module and the files handed to exec_module.
GetClass(modules_set, paths_set, class_name) ==
    LET Executed(visited) == { p \in visited : Executes(p) }
        mruns == FirstMatch([m \in modules_set |-> GetClassFromModule(m, class_name)])
        pruns == FirstMatch([p \in paths_set |-> GetClassFromFile(p, class_name)])
    IN  { [out |-> r.out, imported |-> r.visited, executed |-> {}] :
            r \in { x \in mruns : x.out # Returned(None) } }
        \cup
        { [out |-> IF q.out = Returned(None) THEN Raised(NotFound(class_name))
                   ELSE q.out,
           imported |-> r.visited, executed |-> Executed(q.visited)] :
            r \in { x \in mruns : x.out = Returned(None) }, q \in pruns }

-----------------------------------------------------------------------------
(* The calls made on the loader.                                           *)

\* Sequences over S of length at most n.
SeqUpTo(S, n) == UNION { [1..k -> S] : k \in 0..n }

\* Namespaces and path strings handed to the registration methods.
ModuleNames == {"mod_a", "mod_absent", "mod_dep", ".rel"}

PathStrings ==
    { <<"plug_a.py">>, <<".", "plug_a.py">>, <<"bad.py">>, <<"exit.py">> }

\* The lists handed over: empty, of one element, with a repeated element,
\* of several.
ModuleLists ==
    { <<>>, <<"mod_a">>, <<"mod_a", "mod_a">>, <<"mod_absent", ".rel">>,
      <<"mod_dep", "mod_a", "mod_absent">> }

PathLists ==
    { <<>>, << <<"plug_a.py">> >>, << <<".", "plug_a.py">>, <<"plug_a.py">> >>,
      << <<"bad.py">>, <<"exit.py">> >>,
      << <<"gone.py">>, <<"notes.txt">> >> }

ModuleArgs ==
    { StrArg(m) : m \in ModuleNames } \cup { ListArg(l, "") : l \in ModuleLists }

PathArgs ==
    { StrArg(p) : p \in PathStrings } \cup { ListArg(l, <<>>) : l \in PathLists }

\* Names asked of get_class: A (a namespace and a file), B (a namespace),
\* C (a file), Z (nowhere).
ClassNames == { <<"A">>, <<"B">>, <<"C">>, <<"Z">> }

NoCall == [op |-> "none"]

NoContext == [type |-> "none"]

Init ==
    /\ registered_modules = {}
    /\ registered_paths = {}
    /\ context = NoContext
    /\ last = NoCall

\* ComponentLoader.initialize_default_modules()
InitializeDefaultModules ==
    /\ registered_modules' = registered_modules \cup DefaultModules
    /\ last' = [op |-> "initialize_default_modules"]
    /\ UNCHANGED <<registered_paths, context>>

\* ComponentLoader.register_modules(modules)
RegisterModules(modules) ==
    /\ registered_modules' = AddModules(registered_modules, modules)
    /\ last' = [op |-> "register_modules", arg |-> modules]
    /\ UNCHANGED <<registered_paths, context>>

\* ComponentLoader.register_paths(paths)
RegisterPaths(paths) ==
    /\ registered_paths' = AddPaths(registered_paths, paths)
    /\ last' = [op |-> "register_paths", arg |-> paths]
    /\ UNCHANGED <<registered_modules, context>>

\* ComponentLoader.get_class(class_name)
CallGetClass(class_name) ==
    /\ \E run \in GetClass(registered_modules, registered_paths, class_name) :
           last' = [op |-> "get_class", arg |-> class_name, out |-> run.out,
                    imported |-> run.imported, executed |-> run.executed]
    /\ UNCHANGED <<registered_modules, registered_paths, context>>

Next ==
    \/ InitializeDefaultModules
    \/ \E modules \in ModuleArgs : RegisterModules(modules)
    \/ \E paths \in PathArgs : RegisterPaths(paths)
    \/ \E class_name \in ClassNames : CallGetClass(class_name)

Spec == Init /\ [][Next]_vars

-----------------------------------------------------------------------------
(* CustomContextOperationLoader                                            *)

\* str.startswith
StartsWith(s, prefix) ==
    /\ Len(s) >= Len(prefix)
    /\ SubSeq(s, 1, Len(prefix)) = prefix

\* "." of a regular expression compiled without DOTALL.
Dot(c) == c # "\n"

\* "$" without MULTILINE, before position pos: the end of the string, or just
\* before a newline that is its last character.
AtEnd(s, pos) ==
    \/ pos = Len(s) + 1
    \/ pos = Len(s) /\ s[pos] = "\n"

\* s[from .. to-1] is matched by ".*?"
Dots(s, from, to) == \A k \in from..(to - 1) : Dot(s[k])

\* The greatest pair: a greedy quantifier's order.
Greatest(pairs) ==
    CHOOSE p \in pairs :
        \A q \in pairs : p[1] > q[1] \/ (p[1] = q[1] /\ p[2] >= q[2])

\* The least pair of a non-empty set of pairs, first component first: the
\* order in which a lazy quantifier tries its lengths.
Least(pairs) ==
    CHOOSE p \in pairs :
        \A q \in pairs : p[1] < q[1] \/ (p[1] = q[1] /\ p[2] <= q[2])

RenamePrefix == <<"r", "e", "n", "a", "m", "e", ":">>
DeletePrefix == <<"d", "e", "l", "e", "t", "e", ":">>

\* re.match(r"rename:(.*?):(.*?)$", s): <<i, e>> where s[i] is the colon that
\* ends group 1 and group 2 ends before e; {} without a match.
RenameMatches(s) ==
    IF ~StartsWith(s, RenamePrefix) THEN {}
    ELSE { p \in (8..Len(s)) \X (9..(Len(s) + 1)) :
             /\ p[1] < p[2]
             /\ Dots(s, 8, p[1])
             /\ s[p[1]] = ":"
             /\ Dots(s, p[1] + 1, p[2])
             /\ AtEnd(s, p[2]) }

\* re.match(r"delete:(.*?)$", s): <<8, e>> where the group ends before e.
DeleteMatches(s) ==
    IF ~StartsWith(s, DeletePrefix) THEN {}
    ELSE { p \in {8} \X (8..(Len(s) + 1)) :
             /\ Dots(s, 8, p[2])
             /\ AtEnd(s, p[2]) }

\* rename_context_key(old_key, new_key) and delete_context_key(key): the
\* type the factory builds, bound to the captured keys.
RenameContextKey(old_key, new_key) ==
    [factory |-> "rename_context_key", id |-> "", args |-> <<old_key, new_key>>]

DeleteContextKey(key) ==
    [factory |-> "delete_context_key", id |-> "", args |-> <<key>>]

\* raise ValueError(f"Unknown context operation: {class_name}")
UnknownOperation(class_name) ==
    [cls |-> "ValueError", text |-> "Unknown context operation: {class_name}",
     arg |-> class_name]

\* The if / elif on startswith and the two re.match calls.
SpecialOperation(class_name) ==
    IF StartsWith(class_name, RenamePrefix)
    THEN IF RenameMatches(class_name) # {}
         THEN LET m == Least(RenameMatches(class_name))
              IN  Returned(RenameContextKey(SubSeq(class_name, 8, m[1] - 1),
                                            SubSeq(class_name, m[1] + 1, m[2] - 1)))
         ELSE Raised(UnknownOperation(class_name))
    ELSE IF StartsWith(class_name, DeletePrefix)
         THEN IF DeleteMatches(class_name) # {}
              THEN LET m == Least(DeleteMatches(class_name))
                   IN  Returned(DeleteContextKey(SubSeq(class_name, 8, m[2] - 1)))
              ELSE Raised(UnknownOperation(class_name))
         ELSE Raised(UnknownOperation(class_name))

\* try: return ComponentLoader.get_class(class_name)
\* except ValueError: pass
HandlesLookupError(exc) == IsInstance(exc, "ValueError")

\* get_context_operation: the runs of get_class, each followed by the special
\* operations when get_class raised what the except clause catches.  special
\* tells whether the call went on to the special operations.
GetContextOperation(modules_set, paths_set, class_name) ==
    { IF run.out.kind = "raise" /\ HandlesLookupError(run.out.exc)
      THEN [out |-> SpecialOperation(class_name), special |-> TRUE,
            lookup |-> run.out,
            imported |-> run.imported, executed |-> run.executed]
      ELSE [out |-> run.out, special |-> FALSE, lookup |-> run.out,
            imported |-> run.imported, executed |-> run.executed] :
        run \in GetClass(modules_set, paths_set, class_name) }

\* CustomContextOperationLoader.get_context_operation(class_name)
CallGetContextOperation(class_name) ==
    /\ \E run \in GetContextOperation(registered_modules, registered_paths,
                                       class_name) :
           last' = [op |-> "get_context_operation", arg |-> class_name,
                    out |-> run.out, special |-> run.special,
                    lookup |-> run.lookup,
                    imported |-> run.imported, executed |-> run.executed]
    /\ UNCHANGED <<registered_modules, registered_paths, context>>

\* Descriptors: a prefix followed by a tail over a letter, the colon and the
\* newline; and the class names.
Prefixes == { RenamePrefix, DeletePrefix, <<"r", "e", "n", "a", "m", "e">>, <<>> }

Descriptors ==
    { pre \o tail : pre \in Prefixes, tail \in SeqUpTo({"a", ":", "\n"}, MaxTail) }
    \cup ClassNames

OpsModuleArgs == { StrArg(m) : m \in {"", ".rel"} }

OpsPathArgs == { StrArg(p) : p \in { <<"ops.py">> } }

NextOps ==
    \/ \E modules \in OpsModuleArgs : RegisterModules(modules)
    \/ \E paths \in OpsPathArgs : RegisterPaths(paths)
    \/ \E class_name \in Descriptors : CallGetContextOperation(class_name)

SpecOps == Init /\ [][NextOps]_vars

-----------------------------------------------------------------------------
(* Contexts.  A mapping is a function from the keys it holds.               *)

Keys == {"k", "j"}
Values == {1, 2}

EmptyMap == [x \in {} |-> 0]

Mappings == UNION { [D -> Values] : D \in SUBSET Keys }

\* mapping[key] = value
SetItem(mapping, key, value) ==
    [x \in DOMAIN mapping \cup {key} |-> IF x = key THEN value ELSE mapping[x]]

\* The three kinds of context: a ContextType (data), a ContextCollectionType
\* (data holds what is written collection-wide, items the slices) and a
\* collections.ChainMap (maps, innermost first).
FlatContext(data) ==
    [type |-> "ContextType", data |-> data, items |-> <<>>, maps |-> <<>>]

CollectionContext(data, items) ==
    [type |-> "ContextCollectionType", data |-> data, items |-> items, maps |-> <<>>]

ChainMap(maps) ==
    [type |-> "ChainMap", data |-> EmptyMap, items |-> <<>>, maps |-> maps]

\* ContextType.set_value(key, value); on a collection, the collection-wide write.
SetValue(ctx, key, value) == [ctx EXCEPT !.data = SetItem(@, key, value)]

\* ContextType.get_value(key)
GetValue(ctx, key) == IF key \in DOMAIN ctx.data THEN ctx.data[key] ELSE 0

\* ContextCollectionType.set_item_value(index, key, value): slices are 0-based.
SetItemValue(ctx, index, key, value) ==
    [ctx EXCEPT !.items[index + 1] = SetItem(@, key, value)]

\* ContextCollectionType.get_item_value(index, key): what slice index reads;
\* a collection-wide value is seen from every slice.
GetItemValue(ctx, index, key) ==
    IF key \in DOMAIN ctx.data THEN ctx.data[key]
    ELSE IF key \in DOMAIN ctx.items[index + 1] THEN ctx.items[index + 1][key]
    ELSE 0

\* ChainMap.__getitem__: the first layer that holds the key.
ChainGet(ctx, key) ==
    LET holders == { n \in 1..Len(ctx.maps) : key \in DOMAIN ctx.maps[n] }
    IN  IF holders = {} THEN 0
        ELSE ctx.maps[CHOOSE n \in holders : \A o \in holders : n <= o][key]

\* An Optional[int] argument.
NoIndex == [none |-> TRUE, i |-> 0]
Index(i) == [none |-> FALSE, i |-> i]

\* An update_context that never looks at index on a collection.
UpdateContextNoIndex(ctx, key, value, index) ==
    IF ctx.type = "ChainMap"
    THEN [ctx EXCEPT !.maps[1] = SetItem(@, key, value)]
    ELSE SetValue(ctx, key, value)

\* An update_context that writes a chain's key into the layer that holds it.
UpdateContextWhereFound(ctx, key, value, index) ==
    IF ctx.type = "ContextCollectionType"
    THEN IF index.none
         THEN SetValue(ctx, key, value)
         ELSE SetItemValue(ctx, index.i, key, value)
    ELSE IF ctx.type = "ChainMap"
         THEN LET holders == { n \in 1..Len(ctx.maps) : key \in DOMAIN ctx.maps[n] }
                  layer == IF holders = {} THEN 1
                           ELSE CHOOSE n \in holders : \A o \in holders : n <= o
              IN  [ctx EXCEPT !.maps[layer] = SetItem(@, key, value)]
         ELSE SetValue(ctx, key, value)

\* An update_context that takes an index as a slice position on any context
\* that is not a chain: a flat context has no slice, and is left as it is.
UpdateContextIndexFirst(ctx, key, value, index) ==
    IF ctx.type = "ChainMap"
    THEN [ctx EXCEPT !.maps[1] = SetItem(@, key, value)]
    ELSE IF index.none
         THEN SetValue(ctx, key, value)
         ELSE IF ctx.type = "ContextCollectionType"
              THEN SetItemValue(ctx, index.i, key, value)
              ELSE ctx

\* ContextObserver.update_context(context, key, value, index)
UpdateContext(ctx, key, value, index) ==
    IF ctx.type = "ContextCollectionType"
    THEN IF index.none
         THEN SetValue(ctx, key, value)
         ELSE SetItemValue(ctx, index.i, key, value)
    ELSE IF ctx.type = "ChainMap"
         THEN [ctx EXCEPT !.maps[1] = SetItem(@, key, value)]
         ELSE SetValue(ctx, key, value)

\* The contexts a pipeline starts from: a flat context, a collection of empty
\* slices, a chain of an empty local layer over its parents.
InitialContexts ==
    { FlatContext(m) : m \in Mappings }
    \cup { CollectionContext(EmptyMap, [n \in 1..N |-> EmptyMap]) : N \in 1..MaxSlices }
    \cup { ChainMap(<<EmptyMap>> \o outer) : outer \in SeqUpTo(Mappings, MaxOuter) }

\* The index arguments a caller may hand in with this context: a position of
\* the collection; anything for the other kinds.
IndexArgs(ctx) ==
    {NoIndex} \cup
    { Index(i) : i \in IF ctx.type = "ContextCollectionType"
                       THEN 0..(Len(ctx.items) - 1)
                       ELSE 0..MaxSlices }

InitContext ==
    /\ registered_modules = {}
    /\ registered_paths = {}
    /\ context \in InitialContexts
    /\ last = NoCall

\* ContextObserver.update_context(context, key, value, index) on the context in scope
CallUpdateContext(key, value, index) ==
    /\ context' = UpdateContext(context, key, value, index)
    /\ last' = [op |-> "update_context", key |-> key, value |-> value, index |-> index]
    /\ UNCHANGED <<registered_modules, registered_paths>>

NextContext ==
    \E key \in Keys, value \in Values :
        \E index \in IndexArgs(context) : CallUpdateContext(key, value, index)

SpecContext == InitContext /\ [][NextContext]_vars

-----------------------------------------------------------------------------
(* Properties of the loader.  The registry a get_class call ran on is the   *)
(* registry of the state that records the call: get_class changes neither   *)
(* set.                                                                      *)

\* The types the registered, importable namespaces hold under class_name.
NamespaceTypes(class_name) ==
    { Class(ImportModule(m).attrs[class_name]) :
        m \in { x \in registered_modules :
                  /\ ImportModule(x).ok
                  /\ class_name \in DOMAIN ImportModule(x).attrs } }

\* The types the registered files that load hold under class_name.
FileTypes(class_name) ==
    { Class(ExecModule(p).attrs[class_name]) :
        p \in { x \in registered_paths :
                  /\ IsFile(x) /\ HasLoader(x) /\ ExecModule(x).ok
                  /\ class_name \in DOMAIN ExecModule(x).attrs } }

\* Registered namespaces whose import fails.
FailingNamespaces == { m \in registered_modules : ~ImportModule(m).ok }

\* ... because the namespace itself cannot be found.
AbsentNamespaces ==
    { m \in FailingNamespaces :
        ImportModule(m).exc.cls = "ModuleNotFoundError" /\ ImportModule(m).missing = m }

\* ... with an error other than ModuleNotFoundError.
BrokenNamespaces ==
    { m \in FailingNamespaces : ImportModule(m).exc.cls # "ModuleNotFoundError" }

\* Registered files whose execution raises.
FailingFiles ==
    { p \in registered_paths : IsFile(p) /\ HasLoader(p) /\ ~ExecModule(p).ok }

\* ... an exception derived from Exception.
BrokenFiles == { p \in FailingFiles : "Exception" \in Mro(ExecModule(p).exc.cls) }

\* ... a BaseException outside Exception (SystemExit).
ExitingFiles == FailingFiles \ BrokenFiles

GotClass == last.op = "get_class"

\* C1: get_class executes a file only after it has imported every registered
\* namespace without a match.  When a name is held both by a registered
\* importable namespace and by a registered file, it executes no file; what
\* it returns is a namespace's type, and it does return unless a registered
\* namespace's import raises an error that propagates.
NamespaceBeforePath ==
    GotClass =>
        /\ last.executed # {} =>
               /\ last.imported = registered_modules
               /\ NamespaceTypes(last.arg) = {}
        /\ (NamespaceTypes(last.arg) # {} /\ FileTypes(last.arg) # {}) =>
               /\ last.executed = {}
               /\ last.out.kind = "return" =>
                      last.out.value \in NamespaceTypes(last.arg)
               /\ last.out.kind = "raise" =>
                      \E m \in BrokenNamespaces \cap last.imported :
                          last.out.exc = ImportModule(m).exc
               /\ BrokenNamespaces = {} => last.out.kind = "return"

NamespaceBeforePathWitness ==
    /\ GotClass
    /\ last.arg = <<"A">>
    /\ <<"plug_a.py">> \in registered_paths
    /\ "mod_absent" \in last.imported
    /\ last.out = Returned(Class("mod_a.A"))

\* C2 as stated: get_class returns a type of a registered source that defines
\* the name whenever one does, and raises the not-found ValueError otherwise.
ResolutionIsTotal ==
    GotClass =>
        IF NamespaceTypes(last.arg) \cup FileTypes(last.arg) # {}
        THEN /\ last.out.kind = "return"
             /\ last.out.value \in NamespaceTypes(last.arg) \cup FileTypes(last.arg)
        ELSE last.out = Raised(NotFound(last.arg))

\* C2, amended: get_class returns a type of a registered source that defines
\* the name, or raises not-found (naming the name) when no registered source
\* defines it, or lets through the error of a registered namespace whose
\* import raises something other than ModuleNotFoundError, or of a registered
\* file whose execution raises a BaseException outside Exception.  When no
\* such namespace or file is registered, it returns a type exactly when a
\* registered source defines the name, and raises not-found otherwise.
ResolutionCorrectness ==
    GotClass =>
        LET types == NamespaceTypes(last.arg) \cup FileTypes(last.arg)
        IN  /\ \/ last.out.kind = "return" /\ last.out.value \in types
               \/ /\ last.out = Raised(NotFound(last.arg))
                  /\ last.out.exc.cls = "ValueError"
                  /\ last.out.exc.arg = last.arg
                  /\ types = {}
               \/ /\ last.out.kind = "raise"
                  /\ \E m \in BrokenNamespaces : last.out.exc = ImportModule(m).exc
               \/ /\ last.out.kind = "raise"
                  /\ \E p \in ExitingFiles : last.out.exc = ExecModule(p).exc
            /\ (BrokenNamespaces = {} /\ ExitingFiles = {}) =>
                   IF types # {} THEN last.out.kind = "return"
                   ELSE last.out = Raised(NotFound(last.arg))

ResolutionCorrectnessWitness ==
    /\ GotClass
    /\ last.arg = <<"C">>
    /\ last.out = Returned(Class("plug_a.C"))
    /\ {"mod_absent", "mod_a"} \subseteq last.imported
    /\ ".rel" \notin registered_modules

NamespaceAsymmetry ==
    GotClass =>
        \A m \in FailingNamespaces \cap last.imported :
            IF m \in AbsentNamespaces
            THEN last.out # Raised(ImportModule(m).exc)
            ELSE last.out = Raised(ImportModule(m).exc) /\ last.executed = {}

\* The identifiers a str | List[str] argument names.
Named(arg) ==
    IF arg.isstr THEN {arg.s} ELSE { arg.list[i] : i \in 1..Len(arg.list) }

\* After a registration, registering its argument once more leaves what
\* get_class can answer as it is.
RegisteredAgain ==
    /\ last.op = "register_modules" =>
           \A n \in ClassNames :
               GetClass(AddModules(registered_modules, last.arg), registered_paths, n)
               = GetClass(registered_modules, registered_paths, n)
    /\ last.op = "register_paths" =>
           \A n \in ClassNames :
               GetClass(registered_modules, AddPaths(registered_paths, last.arg), n)
               = GetClass(registered_modules, registered_paths, n)

\* What one registration does to the two sets.
RegistrationStep ==
    /\ last'.op = "register_modules" =>
           LET arg == last'.arg
           IN  /\ registered_modules' = registered_modules \cup Named(arg)
               /\ registered_modules \subseteq registered_modules'
               /\ registered_paths' = registered_paths
               /\ Named(arg) \subseteq registered_modules =>
                      registered_modules' = registered_modules
               /\ arg.isstr =>
                      registered_modules' =
                          AddModules(registered_modules, ListArg(<<arg.s>>, ""))
               /\ AddModules(registered_modules', arg) = registered_modules'
    /\ last'.op = "register_paths" =>
           LET arg == last'.arg
           IN  /\ registered_paths' =
                      registered_paths \cup { Path(x) : x \in Named(arg) }
               /\ registered_paths \subseteq registered_paths'
               /\ registered_modules' = registered_modules
               /\ { Path(x) : x \in Named(arg) } \subseteq registered_paths =>
                      registered_paths' = registered_paths
               /\ arg.isstr =>
                      registered_paths' =
                          AddPaths(registered_paths, ListArg(<<arg.s>>, <<>>))
               /\ AddPaths(registered_paths', arg) = registered_paths'

\* C9: a registration adds exactly the identifiers it is given (a path as
\* its Path) and nothing else: no entry is removed, the other set is left
\* alone, a single string registers what the one-element list of it does, a
\* value already registered changes nothing, and registering the same
\* argument once more changes neither the sets nor what get_class can answer.
IdempotentRegistration == []RegisteredAgain /\ [][RegistrationStep]_vars

\* mod_a registered a second time, as a string, with a path registered under
\* two spellings.
IdempotentRegistrationWitness ==
    /\ last.op = "register_modules"
    /\ last.arg = StrArg("mod_a")
    /\ registered_modules = {"mod_a", "mod_dep"}
    /\ registered_paths = { <<"plug_a.py">> }

-----------------------------------------------------------------------------
(* Properties of get_context_operation.                                     *)

GotOperation == last.op = "get_context_operation"

\* C5 as stated: the result of get_class is returned when it succeeds; the
\* special operations are tried only after its not-found error; any other
\* error of the lookup reaches the caller.
FallbackOnlyOnNotFound ==
    GotOperation =>
        /\ last.lookup.kind = "return" => (last.out = last.lookup /\ ~last.special)
        /\ last.special => last.lookup = Raised(NotFound(last.arg))
        /\ (last.lookup.kind = "raise" /\ last.lookup # Raised(NotFound(last.arg))) =>
               last.out = last.lookup

\* The first colon of s at or after position from; 0 when there is none.
FirstColon(s, from) ==
    LET colons == { k \in from..Len(s) : s[k] = ":" }
    IN  IF colons = {} THEN 0 ELSE CHOOSE k \in colons : \A o \in colons : k <= o

\* The descriptor grammar on a string d: rename:<old>:<new> with old up to
\* the next colon and new the whole rest, delete:<key> with key the whole
\* rest, anything else unknown (named by shown, the string the caller gave).
GrammarOf(d, shown) ==
    IF StartsWith(d, RenamePrefix) /\ FirstColon(d, 8) # 0
    THEN Returned(RenameContextKey(SubSeq(d, 8, FirstColon(d, 8) - 1),
                                   SubSeq(d, FirstColon(d, 8) + 1, Len(d))))
    ELSE IF StartsWith(d, DeletePrefix)
         THEN Returned(DeleteContextKey(SubSeq(d, 8, Len(d))))
         ELSE Raised(UnknownOperation(shown))

\* d without the newline that ends it, if one does.
Chomp(d) ==
    IF Len(d) > 0 /\ d[Len(d)] = "\n" THEN SubSeq(d, 1, Len(d) - 1) ELSE d

HasNewline(d) == \E k \in 1..Len(d) : d[k] = "\n"

\* The two patterns tried in their fixed order, without the startswith tests.
FixedOrderMatching(d) ==
    IF RenameMatches(d) # {}
    THEN LET m == Least(RenameMatches(d))
         IN  Returned(RenameContextKey(SubSeq(d, 8, m[1] - 1),
                                       SubSeq(d, m[1] + 1, m[2] - 1)))
    ELSE IF DeleteMatches(d) # {}
         THEN LET m == Least(DeleteMatches(d))
              IN  Returned(DeleteContextKey(SubSeq(d, 8, m[2] - 1)))
         ELSE Raised(UnknownOperation(d))

\* C6 as stated: a descriptor the registry does not resolve gives what the
\* grammar gives on the whole string.
DescriptorGrammarWholeString ==
    (GotOperation /\ last.lookup = Raised(NotFound(last.arg))) =>
        last.out = GrammarOf(last.arg, last.arg)

\* C6, amended: a descriptor the registry does not resolve gives what the
\* grammar gives on the descriptor without the newline that ends it, if one
\* does; a descriptor with a newline anywhere else is unknown.  The unknown
\* error names the descriptor as given.  The startswith-guarded if / elif
\* agrees with the two patterns tried in their fixed order.
DescriptorGrammar ==
    (GotOperation /\ last.lookup = Raised(NotFound(last.arg))) =>
        /\ last.out = IF HasNewline(Chomp(last.arg))
                      THEN Raised(UnknownOperation(last.arg))
                      ELSE GrammarOf(Chomp(last.arg), last.arg)
        /\ last.out = FixedOrderMatching(last.arg)
        /\ last.out.kind = "raise" =>
               /\ last.out.exc.cls = "ValueError"
               /\ last.out.exc.arg = last.arg

DescriptorGrammarWitness ==
    /\ GotOperation
    /\ last.arg = RenamePrefix \o <<"a", ":", ":">>
    /\ last.lookup = Raised(NotFound(last.arg))
    /\ <<"ops.py">> \in last.executed
    /\ last.out = Returned(RenameContextKey(<<"a">>, <<":">>))

-----------------------------------------------------------------------------
(* Properties of update_context.  In a step, last' holds the arguments of   *)
(* the call that made it.                                                   *)

Updated == last.op = "update_context"

\* What one update_context on a collection does.
CollectionStep ==
    context.type = "ContextCollectionType" =>
        LET call == last'
            N == Len(context.items)
        IN  /\ context'.type = "ContextCollectionType"
            /\ Len(context'.items) = N
            /\ IF call.index.none
               THEN /\ \A i \in 0..(N - 1) :
                          GetItemValue(context', i, call.key) = call.value
                    /\ context'.items = context.items
                    /\ \A k \in Keys \ {call.key} :
                          GetValue(context', k) = GetValue(context, k)
               ELSE /\ call.index.i \in 0..(N - 1)
                    /\ call.key \in DOMAIN context'.items[call.index.i + 1]
                    /\ context'.items[call.index.i + 1][call.key] = call.value
                    /\ \A j \in (1..N) \ {call.index.i + 1} :
                          context'.items[j] = context.items[j]
                    /\ \A k \in Keys \ {call.key} :
                          /\ (k \in DOMAIN context'.items[call.index.i + 1])
                                <=> (k \in DOMAIN context.items[call.index.i + 1])
                          /\ k \in DOMAIN context.items[call.index.i + 1] =>
                                context'.items[call.index.i + 1][k]
                                = context.items[call.index.i + 1][k]
                    /\ context'.data = context.data

ChainStep ==
    context.type = "ChainMap" =>
        LET call == last'
        IN  /\ context'.type = "ChainMap"
            /\ Len(context'.maps) = Len(context.maps)
            /\ \A n \in 2..Len(context.maps) : context'.maps[n] = context.maps[n]
            /\ context'.maps[1] = SetItem(context.maps[1], call.key, call.value)
            /\ ChainGet(context', call.key) = call.value

\* C8: on a layered context every update_context, with or without an index,
\* writes the innermost layer only; the outer layers stay what they were,
\* also when one of them holds the key; the key then reads as the value
\* written.
LayeredScoping == [][ChainStep]_vars

\* The key was written locally while the parent holds it with another value.
LayeredScopingWitness ==
    /\ Updated
    /\ context.type = "ChainMap"
    /\ context.maps = << ("k" :> 2), ("k" :> 1) >>
    /\ last.key = "k" /\ last.value = 2
    /\ last.index = Index(1)

\* What one update_context on a flat context does.
FlatStep ==
    context.type = "ContextType" =>
        LET call == last'
        IN  /\ context'.type = "ContextType"
            /\ call.key \in DOMAIN context'.data
            /\ GetValue(context', call.key) = call.value
            /\ \A k \in Keys \ {call.key} :
                   /\ (k \in DOMAIN context'.data) <=> (k \in DOMAIN context.data)
                   /\ GetValue(context', k) = GetValue(context, k)

\* C10: on a flat context update_context sets the key to the value whatever
\* index is, None or an integer; the key then reads as the value and every
\* other key is as before.  A context that was empty before the call, as the
\* one a node is handed in the notification test, holds the notified key.
FlatUpdate == [][FlatStep]_vars

\* An index was given; the other key kept its value.
FlatUpdateWitness ==
    /\ Updated
    /\ context.type = "ContextType"
    /\ last.index = Index(1)
    /\ last.key = "k" /\ last.value = 2
    /\ context.data = ("k" :> 2) @@ ("j" :> 1)

====
